---- MODULE Spec2Model ----
(***************************************************************************)
(* Witness generation and mock verification of the two halo2 circuits of   *)
(* the repository: the range-check circuit (src/src/range_check.rs) and    *)
(* the Fibonacci circuit (src/src/fibonacci.rs).                           *)
(*                                                                         *)
(* The chips are generic over the field F.  The model instantiates F with  *)
(* the prime field of order FieldOrder; every value is a residue           *)
(* 0 .. FieldOrder-1 and all arithmetic is reduced modulo FieldOrder.      *)
(*                                                                         *)
(* A run is MockProver::run (synthesize, step by step) followed by         *)
(* MockProver::verify.  The witness table `advice` is a partial function   *)
(* from (advice column index, row) to a field value: a coordinate outside  *)
(* its domain is an unassigned cell.                                       *)
(***************************************************************************)
EXTENDS Integers, Sequences, FiniteSets, TLC

VARIABLES
    circuit,         \* "range" (RangeCircuit) or "fibo" (FiboCircuit)
    RANGE,           \* const generic RANGE of RangeChip / RangeCircuit
    assigned_value,  \* RangeCircuit.assigned_value
    nrows,           \* argument nrows of FibonacciChip::assign_row
    public_input,    \* the instance column handed to MockProver::run
    run,             \* 1: first MockProver::run of the test, 2: the run after += 1
    pc,              \* position inside synthesize / verify
    i,               \* loop variable _i of assign_row
    advice,          \* witness table: (advice column, row) -> value
    selectors,       \* rows on which the circuit's selector is enabled
    a_cell,          \* local a_cell of assign_row
    b_cell,          \* local b_cell of assign_row
    out_cell,        \* cell returned by assign_row (out_cell of synthesize)
    copies,          \* instance bindings: (advice cell, instance row)
    error,           \* Result of synthesize: "Ok" or the Error
    failures,        \* result of MockProver::verify: the set of VerifyFailure
    first            \* public input and failures of the first run (run 2 only)

vars == <<circuit, RANGE, assigned_value, nrows, public_input, run, pc, i,
          advice, selectors, a_cell, b_cell, out_cell, copies, error,
          failures, first>>

----------------------------------------------------------------------------
(* Sizes explored and constants of the program.                            *)

\* Order of the prime field F the chips are instantiated with.
FieldOrder == 61

\* Largest const generic RANGE explored.
MaxRange == 9

\* Largest nrows handed to assign_row.
MaxRows == 12

\* nrows passed by FiboCircuit::synthesize.
SynthRows == 10

\* Instance row the returned cell is exposed at by FiboCircuit::synthesize.
ExposeRow == 2

\* RANGE of the two range-check tests.
TestRange == 8

\* Circuit size parameter k of the tests (2^k rows).
K == 4

\* Rows available to regions: 2^k minus the blinding rows (5 blinding
\* factors plus one) of a constraint system with at most 3 queries a column.
UsableRows == 2 ^ K - 6

Field == 0 .. FieldOrder - 1

\* Values tried for instance rows 0 and 1.
PublicSeeds == {0, 1, 5}

----------------------------------------------------------------------------
(* Field arithmetic of F.                                                  *)

FAdd(x, y) == (x + y) % FieldOrder

FSub(x, y) == (x - y + FieldOrder) % FieldOrder

FMul(x, y) == (x * y) % FieldOrder

\* F::from(n as u64)
FFrom(n) == n % FieldOrder

----------------------------------------------------------------------------
(* Column handles returned by configure.                                   *)

\* RangeConfig.value: the first advice column
value == 0

\* FibonacciConfig.col_a, col_b, col_c: advice columns 0, 1, 2
col_a == 0

col_b == 1

col_c == 2

\* An AssignedCell: its coordinate and the value it was assigned with.
AssignedCell(column, row, v) == [cell |-> <<column, row>>, value |-> v]

\* A local that holds no cell yet.
NoCell == [cell |-> <<0 - 1, 0>>, value |-> 0]

\* The empty witness table.
EmptyTable == [c \in {} |-> 0]

\* region.assign_advice on the mock prover: stores the value, overwriting
\* whatever the coordinate held.
Assign(table, column, row, v) ==
    [c \in (DOMAIN table) \cup {<<column, row>>} |->
        IF c = <<column, row>> THEN v ELSE table[c]]

\* Value a gate query loads: an unassigned cell evaluates as zero.
Load(table, column, row) ==
    IF <<column, row>> \in DOMAIN table THEN table[<<column, row>>] ELSE 0

IsAssigned(table, column, row) == <<column, row>> \in DOMAIN table

InUsableRows(row) == row < UsableRows

----------------------------------------------------------------------------
(* Gates registered by configure.                                          *)

\* Initial accumulator of the fold, were it the constant one.
FoldInitOne(v) == 1

\* Initial accumulator of the fold in RangeChip::configure: the queried
\* value itself (value.clone()).

FoldInit(v) == v

\* One step of the fold with the sign slipped: expr * (i + value)
FoldStepPlus(expr, k, v) == FMul(expr, FAdd(FFrom(k), v))

\* One step of the fold: expr * (Constant(F::from(i)) - value)
FoldStep(expr, k, v) == FMul(expr, FSub(FFrom(k), v))

\* (1..RANGE).fold(init, step): k runs over 1, ..., R-1.
RECURSIVE Fold(_, _, _, _)
Fold(expr, k, R, v) ==
    IF k >= R THEN expr ELSE Fold(FoldStep(expr, k, v), k + 1, R, v)

\* range_check_poly evaluated at value = v, for the const generic RANGE = R.
range_check_poly(R, v) == Fold(FoldInit(v), 1, R, v)

\* Value of a selector query on a row.
SelectorValue(sel, row) == IF row \in sel THEN 1 ELSE 0

\* "range_check_gate": Constraints::with_selector(q, [range_check_poly]),
\* value queried at Rotation::cur().
RangeGate(R, table, sel, row) ==
    FMul(SelectorValue(sel, row), range_check_poly(R, Load(table, value, row)))

\* Polynomial of gate "add" without the selector: a + b - c
AddPoly(a, b, c) == FSub(FAdd(a, b), c)

\* Gate "add": s * (a + b - c), all three queried at Rotation::cur().
AddGate(table, sel, row) ==
    FMul(SelectorValue(sel, row),
         AddPoly(Load(table, col_a, row), Load(table, col_b, row),
                 Load(table, col_c, row)))

\* The advice columns the circuit's gate queries (all at rotation 0).
QueriedColumns(circ) ==
    IF circ = "range" THEN <<value>> ELSE <<col_a, col_b, col_c>>

GateValue(circ, R, table, sel, row) ==
    IF circ = "range" THEN RangeGate(R, table, sel, row)
    ELSE AddGate(table, sel, row)

\* (index, name) of the circuit's only gate, of its only constraint and of
\* its only region.
GateName(circ) ==
    IF circ = "range" THEN <<0, "range_check_gate">> ELSE <<0, "add">>

ConstraintName(circ) ==
    IF circ = "range" THEN <<0, "range check constraint">> ELSE <<0, "">>

RegionName(circ) ==
    IF circ = "range" THEN <<0, "range check region">> ELSE <<0, "fibo table">>

----------------------------------------------------------------------------
(* MockProver::verify.                                                     *)

\* Hexadecimal digits of n, most significant first, no leading zero.
RECURSIVE HexDigits(_)
HexDigits(n) ==
    IF n < 16 THEN <<n>> ELSE Append(HexDigits(n \div 16), n % 16)

\* Rendering of a cell value in a failure: "0", "1", "-1", else "0x" and
\* the hexadecimal digits without leading zeros.
FormatValue(v) ==
    IF v = FieldOrder - 1 /\ v > 1
    THEN [minus |-> TRUE, prefix |-> "", digits |-> <<1>>]
    ELSE IF v <= 1
    THEN [minus |-> FALSE, prefix |-> "", digits |-> <<v>>]
    ELSE [minus |-> FALSE, prefix |-> "0x", digits |-> HexDigits(v)]

\* cell_values of a ConstraintNotSatisfied: every queried cell, in query
\* order, as ((Advice, column), rotation) and its rendered value.
CellValues(circ, table, row) ==
    [q \in DOMAIN QueriedColumns(circ) |->
        [column   |-> <<"Advice", QueriedColumns(circ)[q]>>,
         rotation |-> 0,
         value    |-> FormatValue(Load(table, QueriedColumns(circ)[q], row))]]

\* A cell a gate queries on a row where its selector is enabled was never
\* assigned in the region.
CellNotAssigned(circ, table, sel) ==
    {[kind        |-> "CellNotAssigned",
      gate        |-> GateName(circ),
      region      |-> RegionName(circ),
      gate_offset |-> row,
      column      |-> <<"Advice", QueriedColumns(circ)[q]>>,
      offset      |-> row]
        : <<row, q>> \in
            {rq \in sel \X DOMAIN QueriedColumns(circ) :
                ~IsAssigned(table, QueriedColumns(circ)[rq[2]], rq[1])}}

\* The gate polynomial is nonzero on a usable row.
ConstraintNotSatisfied(circ, R, table, sel) ==
    {[kind        |-> "ConstraintNotSatisfied",
      constraint  |-> <<GateName(circ), ConstraintName(circ)>>,
      region      |-> RegionName(circ),
      offset      |-> row,
      cell_values |-> CellValues(circ, table, row)]
        : row \in {r \in 0 .. UsableRows - 1 :
                      GateValue(circ, R, table, sel, r) # 0}}

\* Value of instance row r: the supplied vector, padded with zeros.
InstanceValue(inst, r) == IF r < Len(inst) THEN inst[r + 1] ELSE 0

\* A copy constraint binds an advice cell and an instance row: it holds when
\* the cell is assigned and the two values are equal.
CopyHolds(table, inst, cp) ==
    /\ cp[1] \in DOMAIN table
    /\ table[cp[1]] = InstanceValue(inst, cp[2])

\* One Permutation failure for each of the two cells of a violated binding.
Permutation(table, inst, cps) ==
    UNION {
        {[kind |-> "Permutation", column |-> <<"Advice", cp[1][1]>>,
          location |-> <<"InRegion", cp[1][2]>>],
         [kind |-> "Permutation", column |-> <<"Instance", 0>>,
          location |-> <<"OutsideRegion", cp[2]>>]}
        : cp \in {c \in cps : ~CopyHolds(table, inst, c)}}

\* All failures verify collects; the circuit is satisfied iff there is none.
VerifyFailures(circ, R, table, sel, inst, cps) ==
    CellNotAssigned(circ, table, sel)
        \cup ConstraintNotSatisfied(circ, R, table, sel)
        \cup Permutation(table, inst, cps)

----------------------------------------------------------------------------
(* Initial states: a freshly constructed circuit handed to MockProver::run. *)

FreshProver ==
    /\ i = 0
    /\ advice = EmptyTable
    /\ selectors = {}
    /\ a_cell = NoCell
    /\ b_cell = NoCell
    /\ out_cell = NoCell
    /\ copies = {}
    /\ error = "Ok"
    /\ failures = {}

\* RangeCircuit::<F, RANGE> { assigned_value }, run with no instance column.
InitRange ==
    /\ circuit = "range"
    /\ RANGE \in 1 .. MaxRange
    /\ assigned_value \in Field
    /\ nrows = 0
    /\ public_input = <<>>
    /\ pc = "q_check"

\* FiboCircuit, run with a public-input vector of three field elements.
InitFibo ==
    /\ circuit = "fibo"
    /\ RANGE = 1
    /\ assigned_value = 0
    /\ nrows \in 0 .. MaxRows
    /\ public_input \in PublicSeeds \X PublicSeeds \X Field
    /\ pc = "selector0"

Init ==
    /\ InitRange \/ InitFibo
    /\ run = 1
    /\ first = <<>>
    /\ FreshProver

----------------------------------------------------------------------------
(* RangeChip::assign                                                       *)

\* Row q_check is enabled on.
QCheckRow == 0

\* Offset the value is assigned at, one row below the selector.
ValueOffsetOne == QCheckRow + 1

\* Offset the value is assigned at.
ValueOffset == 0

\* self.config.q_check.enable(&mut region, 0)?
EnableQCheck ==
    /\ circuit = "range" /\ pc = "q_check"
    /\ IF InUsableRows(QCheckRow)
       THEN /\ selectors' = selectors \cup {QCheckRow}
            /\ pc' = "value"
            /\ error' = error
       ELSE /\ selectors' = selectors
            /\ pc' = "failed"
            /\ error' = "NotEnoughRowsAvailable"
    /\ UNCHANGED <<circuit, RANGE, assigned_value, nrows, public_input, run, i,
                   advice, a_cell, b_cell, out_cell, copies, failures, first>>

\* region.assign_advice(|| "value", self.config.value, 0, || value)
AssignValue ==
    /\ circuit = "range" /\ pc = "value"
    /\ IF InUsableRows(ValueOffset)
       THEN /\ advice' = Assign(advice, value, ValueOffset, assigned_value)
            /\ pc' = "verify"
            /\ error' = error
       ELSE /\ advice' = advice
            /\ pc' = "failed"
            /\ error' = "NotEnoughRowsAvailable"
    /\ UNCHANGED <<circuit, RANGE, assigned_value, nrows, public_input, run, i,
                   selectors, a_cell, b_cell, out_cell, copies, failures, first>>

----------------------------------------------------------------------------
(* FibonacciChip::assign_row                                               *)

\* Seed values F::ZERO and F::ONE assigned to a and b.
SeedA == 0

SeedB == 1

\* Rows the two selector.enable calls name.
SelectorRow0 == 0

SelectorRow1 == 1

\* Offset of the seed cells a and b.
SeedOffset == 0

\* Offset handed to assign_advice for c in the loop: the literal 0.
COffset(k) == 0

\* Value of c with the operands mixed up (a + a).
CValueTwiceA(a, b) == FAdd(a.value, a.value)

\* Value of c: a_cell.value().copied() + b_cell.value()
CValue(a, b) == FAdd(a.value, b.value)

\* First bound of the loop range, one too low (1..nrows).
LoopStartOne == 2 - 1

\* First bound of the loop range 2..nrows.
LoopStart == 2

\* Cell returned when the closure ends: Ok(b_cell)
ReturnedCell(a, b) == b

\* self.config.selector.enable(&mut region, 0)?
EnableSelector0 ==
    /\ circuit = "fibo" /\ pc = "selector0"
    /\ IF InUsableRows(SelectorRow0)
       THEN /\ selectors' = selectors \cup {SelectorRow0}
            /\ pc' = "selector1"
            /\ error' = error
       ELSE /\ selectors' = selectors
            /\ pc' = "failed"
            /\ error' = "NotEnoughRowsAvailable"
    /\ UNCHANGED <<circuit, RANGE, assigned_value, nrows, public_input, run, i,
                   advice, a_cell, b_cell, out_cell, copies, failures, first>>

\* self.config.selector.enable(&mut region, 1)?
EnableSelector1 ==
    /\ circuit = "fibo" /\ pc = "selector1"
    /\ IF InUsableRows(SelectorRow1)
       THEN /\ selectors' = selectors \cup {SelectorRow1}
            /\ pc' = "assign_a"
            /\ error' = error
       ELSE /\ selectors' = selectors
            /\ pc' = "failed"
            /\ error' = "NotEnoughRowsAvailable"
    /\ UNCHANGED <<circuit, RANGE, assigned_value, nrows, public_input, run, i,
                   advice, a_cell, b_cell, out_cell, copies, failures, first>>

\* let mut a_cell = region.assign_advice(|| "a", col_a, 0, || F::ZERO)?
AssignA ==
    /\ circuit = "fibo" /\ pc = "assign_a"
    /\ IF InUsableRows(SeedOffset)
       THEN /\ advice' = Assign(advice, col_a, SeedOffset, SeedA)
            /\ a_cell' = AssignedCell(col_a, SeedOffset, SeedA)
            /\ pc' = "assign_b"
            /\ error' = error
       ELSE /\ UNCHANGED <<advice, a_cell>>
            /\ pc' = "failed"
            /\ error' = "NotEnoughRowsAvailable"
    /\ UNCHANGED <<circuit, RANGE, assigned_value, nrows, public_input, run, i,
                   selectors, b_cell, out_cell, copies, failures, first>>

\* let mut b_cell = region.assign_advice(|| "b", col_b, 0, || F::ONE)?
\* and entry into the loop for _i in 2..nrows.
AssignB ==
    /\ circuit = "fibo" /\ pc = "assign_b"
    /\ IF InUsableRows(SeedOffset)
       THEN /\ advice' = Assign(advice, col_b, SeedOffset, SeedB)
            /\ b_cell' = AssignedCell(col_b, SeedOffset, SeedB)
            /\ i' = LoopStart
            /\ pc' = "loop"
            /\ error' = error
       ELSE /\ UNCHANGED <<advice, b_cell, i>>
            /\ pc' = "failed"
            /\ error' = "NotEnoughRowsAvailable"
    /\ UNCHANGED <<circuit, RANGE, assigned_value, nrows, public_input, run,
                   selectors, a_cell, out_cell, copies, failures, first>>

\* One iteration of the loop body:
\*   let c_cell = region.assign_advice(|| "c", col_c, 0, || a + b)?;
\*   a_cell = b_cell; b_cell = c_cell;
AssignC ==
    /\ circuit = "fibo" /\ pc = "loop" /\ i < nrows
    /\ IF InUsableRows(COffset(i))
       THEN /\ advice' = Assign(advice, col_c, COffset(i), CValue(a_cell, b_cell))
            /\ a_cell' = b_cell
            /\ b_cell' = AssignedCell(col_c, COffset(i), CValue(a_cell, b_cell))
            /\ i' = i + 1
            /\ pc' = pc
            /\ error' = error
       ELSE /\ UNCHANGED <<advice, a_cell, b_cell, i>>
            /\ pc' = "failed"
            /\ error' = "NotEnoughRowsAvailable"
    /\ UNCHANGED <<circuit, RANGE, assigned_value, nrows, public_input, run,
                   selectors, out_cell, copies, failures, first>>

\* The loop range is exhausted: Ok(b_cell), bound to out_cell by synthesize.
Return ==
    /\ circuit = "fibo" /\ pc = "loop" /\ i >= nrows
    /\ out_cell' = ReturnedCell(a_cell, b_cell)
    /\ pc' = "expose"
    /\ UNCHANGED <<circuit, RANGE, assigned_value, nrows, public_input, run, i,
                   advice, selectors, a_cell, b_cell, copies, error, failures,
                   first>>

----------------------------------------------------------------------------
(* FibonacciChip::expose_public, as called by FiboCircuit::synthesize       *)

\* Bindings made when the seed cell a is exposed at instance row 0 as well.
ExposedAlsoSeed(a, out) == {<<a.cell, 0>>, <<out.cell, ExposeRow>>}

\* Bindings synthesize makes: expose_public(out_cell, 2) and nothing else.
Exposed(a, out) == {<<out.cell, ExposeRow>>}

\* layouter.constrain_instance(cell.cell(), self.config.instance, row)
expose_public ==
    /\ circuit = "fibo" /\ pc = "expose"
    /\ IF InUsableRows(ExposeRow)
       THEN /\ copies' = copies \cup Exposed(a_cell, out_cell)
            /\ pc' = "verify"
            /\ error' = error
       ELSE /\ copies' = copies
            /\ pc' = "failed"
            /\ error' = "NotEnoughRowsAvailable"
    /\ UNCHANGED <<circuit, RANGE, assigned_value, nrows, public_input, run, i,
                   advice, selectors, a_cell, b_cell, out_cell, failures, first>>

----------------------------------------------------------------------------
(* The tests: MockProver::run(..).unwrap(), verify, and the second run.     *)

\* prover.verify() / prover.assert_satisfied() after a run that returned Ok.
Verify ==
    /\ pc = "verify"
    /\ failures' = VerifyFailures(circuit, RANGE, advice, selectors,
                                  public_input, copies)
    /\ pc' = "verified"
    /\ UNCHANGED <<circuit, RANGE, assigned_value, nrows, public_input, run, i,
                   advice, selectors, a_cell, b_cell, out_cell, copies, error,
                   first>>

\* public_input[2] += Fp::one(), then MockProver::run on a fresh prover.
IncrementPublicInput ==
    /\ circuit = "fibo" /\ pc = "verified" /\ run = 1
    /\ public_input' = [public_input EXCEPT ![ExposeRow + 1] = FAdd(@, 1)]
    /\ run' = 2
    /\ first' = <<[public_input |-> public_input, failures |-> failures]>>
    /\ i' = 0
    /\ advice' = EmptyTable
    /\ selectors' = {}
    /\ a_cell' = NoCell
    /\ b_cell' = NoCell
    /\ out_cell' = NoCell
    /\ copies' = {}
    /\ error' = "Ok"
    /\ failures' = {}
    /\ pc' = "selector0"
    /\ UNCHANGED <<circuit, RANGE, assigned_value, nrows>>

Next ==
    \/ EnableQCheck
    \/ AssignValue
    \/ EnableSelector0
    \/ EnableSelector1
    \/ AssignA
    \/ AssignB
    \/ AssignC
    \/ Return
    \/ expose_public
    \/ Verify
    \/ IncrementPublicInput

Spec == Init /\ [][Next]_vars

----------------------------------------------------------------------------
(* Properties.                                                             *)

RangeVerified == circuit = "range" /\ pc = "verified"

\* assign_row has returned (synthesize holds out_cell).
Returned == circuit = "fibo" /\ pc \in {"expose", "verify", "verified"}

FiboVerified == circuit = "fibo" /\ pc = "verified"

\* k-th term of t_k = t_{k-2} + t_{k-1} in the field, t_1 = 0 and t_2 = 1.
Term[k \in 1 .. MaxRows + 2] ==
    IF k = 1 THEN 0 ELSE IF k = 2 THEN 1 ELSE FAdd(Term[k - 2], Term[k - 1])

KindsOf(fs) == {f.kind : f \in fs}

\* C1: range circuit, selector enabled on row 0 and v assigned at row 0 by
\* RangeChip::assign: the run completes and verification reports the circuit
\* satisfied if and only if v is one of 0, 1, ..., RANGE-1.
C1_SatisfiedIffInRange ==
    RangeVerified =>
        /\ error = "Ok"
        /\ selectors = {0}
        /\ advice = Assign(EmptyTable, value, 0, assigned_value)
        /\ (failures = {}) <=> (assigned_value \in 0 .. RANGE - 1)

\* RANGE = 8 and v = 0: accepted.
C1_Witness ==
    /\ RangeVerified /\ RANGE = TestRange
    /\ assigned_value = 0 /\ failures = {}

\* C2: range circuit with RANGE = 8 and v outside 0..7: run completes and
\* verify returns exactly one failure, the ConstraintNotSatisfied of gate 0
\* "range_check_gate", constraint 0 "range check constraint", in region 0
\* "range check region" at offset 0, whose only cell value is advice column
\* 0 at rotation 0 holding v (rendered 0x16 for v = 22).
C2_SingleConstraintFailure ==
    (RangeVerified /\ RANGE = TestRange
        /\ assigned_value \notin 0 .. TestRange - 1) =>
        /\ error = "Ok"
        /\ failures =
            {[kind        |-> "ConstraintNotSatisfied",
              constraint  |-> <<<<0, "range_check_gate">>,
                                <<0, "range check constraint">>>>,
              region      |-> <<0, "range check region">>,
              offset      |-> 0,
              cell_values |->
                  <<[column   |-> <<"Advice", 0>>,
                     rotation |-> 0,
                     value    |-> FormatValue(assigned_value)]>>]}
        /\ assigned_value = 22 =>
              \A f \in failures :
                  f.cell_values[1].value =
                      [minus |-> FALSE, prefix |-> "0x", digits |-> <<1, 6>>]

\* The tested case v = 22 has been verified and rejected.
C2_Witness ==
    /\ RangeVerified /\ RANGE = TestRange
    /\ assigned_value = 22 /\ Cardinality(failures) = 1

\* C3: Fibonacci circuit as synthesized (nrows = 10, returned cell bound to
\* instance row 2) with public input [1, 1, 55]: run completes and the
\* circuit is satisfied (no failure of any kind).
C3_SynthesizedSatisfied ==
    (FiboVerified /\ run = 1 /\ nrows = SynthRows
        /\ public_input = <<1, 1, 55>>) =>
        /\ error = "Ok"
        /\ failures = {}

C5_OnlyBindingFails ==
    (FiboVerified /\ run = 2 /\ nrows = SynthRows
        /\ "Permutation" \notin KindsOf(first[1].failures)) =>
        /\ error = "Ok"
        /\ KindsOf(failures) = {"Permutation"}

\* C6 as stated: the root set of the range-check polynomial is exactly
\* {1, ..., RANGE-1}; an assigned value of 0 makes the gate nonzero and the
\* circuit is rejected.
C6_ZeroIsNotARoot ==
    RangeVerified =>
        /\ \A x \in Field :
              (range_check_poly(RANGE, x) = 0) <=> (x \in 1 .. RANGE - 1)
        /\ assigned_value = 0 =>
              /\ RangeGate(RANGE, advice, selectors, 0) # 0
              /\ failures # {}

\* C6 amended: the root set of the range-check polynomial is exactly
\* {0, 1, ..., RANGE-1}; an assigned value of 0 makes the gate evaluate to
\* zero on row 0 and the circuit is accepted.
C6_RootSetIncludesZero ==
    RangeVerified =>
        /\ \A x \in Field :
              (range_check_poly(RANGE, x) = 0) <=> (x \in 0 .. RANGE - 1)
        /\ assigned_value = 0 =>
              /\ RangeGate(RANGE, advice, selectors, 0) = 0
              /\ failures = {}

\* Value 0 verified with the selector on: the gate vanishes on row 0.
C6_Witness ==
    /\ RangeVerified /\ RANGE > 1
    /\ assigned_value = 0 /\ 0 \in selectors
    /\ RangeGate(RANGE, advice, selectors, 0) = 0

\* C7: for n in {0, 1, 2} assign_row(n) executes no addition step (no cell
\* of column c is assigned), returns Ok, and returns the seed b cell
\* (column b, row 0) holding 1.
C7_NoStepBelowThree ==
    (circuit = "fibo" /\ nrows <= 2) =>
        /\ \A c \in DOMAIN advice : c[1] # col_c
        /\ pc # "failed" /\ error = "Ok"
        /\ Returned =>
              /\ out_cell = AssignedCell(col_b, 0, 1)
              /\ advice[<<col_b, 0>>] = 1

\* assign_row(2) has returned the seed b cell.
C7_Witness ==
    /\ Returned /\ nrows = 2
    /\ out_cell.cell = <<col_b, 0>>

\* C8: for n >= 2, in the final table of assign_row(n) the add gate holds
\* on every row the selector is enabled on: a, b, c of the row are assigned
\* and a + b - c = 0.
C8_AddGateHoldsOnEnabledRows ==
    (Returned /\ nrows >= 2) =>
        \A row \in selectors :
            /\ \A col \in {col_a, col_b, col_c} : IsAssigned(advice, col, row)
            /\ AddPoly(Load(advice, col_a, row), Load(advice, col_b, row),
                       Load(advice, col_c, row)) = 0

\* C9: witness cells are write-once: within a run no assigned cell changes
\* its value in any later step, and the value carried by the returned
\* AssignedCell equals the value stored at its coordinate.
C9_WriteOnce ==
    [][/\ run' = run =>
              \A c \in DOMAIN advice :
                  c \in DOMAIN advice' /\ advice'[c] = advice[c]
       /\ (circuit' = "fibo" /\ pc' \in {"expose", "verify", "verified"}) =>
              /\ out_cell'.cell \in DOMAIN advice'
              /\ advice'[out_cell'.cell] = out_cell'.value]_vars

\* C10: the Fibonacci circuit binds exactly one cell to the instance column,
\* at row 2, and the verification result does not depend on the values of
\* instance rows 0 and 1.
C10_OnlyRowTwoMatters ==
    FiboVerified =>
        /\ copies = {<<out_cell.cell, ExposeRow>>}
        /\ \A x \in PublicSeeds, y \in PublicSeeds :
              failures =
                  VerifyFailures(circuit, RANGE, advice, selectors,
                                 <<x, y, public_input[3]>>, copies)

\* Verified with rows 0 and 1 holding different values and a matching row 2.
C10_Witness ==
    /\ FiboVerified /\ nrows = SynthRows
    /\ public_input[1] # public_input[2]
    /\ "Permutation" \notin KindsOf(failures)

====
